---- MODULE Spec2Model ----
(***************************************************************************)
(* A model of kanban-poc/kanban.py: a command-line kanban board whose      *)
(* whole state is one JSON file, kanban.json, holding a dictionary of      *)
(* tasks and a dictionary of sprints.  Every command is one run of the     *)
(* program: load_data, the handler, and save_data on the paths that reach  *)
(* it.                                                                     *)
(*                                                                         *)
(* Python strings are modelled as sequences of tokens.  A token is either  *)
(* one of the characters the program looks at (" ", "\n", "=", "#", "-")   *)
(* or a word: a run of other characters.  The empty string is << >>.       *)
(***************************************************************************)
EXTENDS Integers, Sequences, FiniteSets, TLC

VARIABLES
    file,   \* kanban.json: [exists |-> BOOLEAN, content |-> the data saved]
    pre,    \* kanban.json as it was when the last command started
    last,   \* the command under observation: [op, args, out, moved]
    nops,   \* the number of commands run so far
    tmp,    \* the number of temporary files of editor sessions in existence
    proc    \* the invocations that run at the same time: for each its
            \* position, its command, the data it loaded, and when it loaded,
            \* opened kanban.json for writing and wrote it

vars == <<file, pre, last, nops, tmp, proc>>

----------------------------------------------------------------------------
(* Python values *)

\* None.  "NoneType" is not a token of any string of the model, so no string
\* equals None.
None == <<"NoneType">>

SP == " "
NL == "\n"
Whitespace == {SP, NL}

Str(w) == <<w>>
EmptyStr == << >>

\* bool(x) for x a string or None
Truthy(x) == x /= None /\ x /= EmptyStr

\* x or ''
OrEmpty(x) == IF Truthy(x) THEN x ELSE EmptyStr

\* str.lstrip(), str.rstrip(), str.strip()
lstrip(s) ==
    LET keep == {i \in 1..Len(s) : s[i] \notin Whitespace}
    IN  IF keep = {} THEN EmptyStr
        ELSE SubSeq(s, CHOOSE i \in keep : \A j \in keep : i <= j, Len(s))

rstrip(s) ==
    LET keep == {i \in 1..Len(s) : s[i] \notin Whitespace}
    IN  IF keep = {} THEN EmptyStr
        ELSE SubSeq(s, 1, CHOOSE i \in keep : \A j \in keep : j <= i)

strip(s) == lstrip(rstrip(s))

\* str.rstrip("\n")
rstrip_nl(s) ==
    LET keep == {i \in 1..Len(s) : s[i] /= NL}
    IN  IF keep = {} THEN EmptyStr
        ELSE SubSeq(s, 1, CHOOSE i \in keep : \A j \in keep : j <= i)

\* d[k] = v on a dictionary d
DictSet(d, k, v) == [x \in DOMAIN d \cup {k} |-> IF x = k THEN v ELSE d[x]]

EmptyDict == << >>

----------------------------------------------------------------------------
(* Constants of the program *)

STATUS_ORDER == <<Str("TODO"), Str("IN_PROGRESS"), Str("REVIEW"),
                  Str("TESTING_DEPLOYMENT"), Str("DONE")>>

STATUSES == {STATUS_ORDER[i] : i \in 1..Len(STATUS_ORDER)}

DONE == Str("DONE")

----------------------------------------------------------------------------
(* Storage *)

EmptyData == [tasks |-> EmptyDict, sprints |-> EmptyDict]

load_data(f) == IF ~f.exists THEN EmptyData ELSE f.content

save_data(data) == [exists |-> TRUE, content |-> data]

\* the number of characters of a string as json.dump writes it between its
\* quotes: a newline is written as two characters
RECURSIVE chars(_)
chars(s) ==
    IF s = EmptyStr THEN 0
    ELSE (IF Head(s) = NL THEN 2 ELSE Len(Head(s))) + chars(Tail(s))

RECURSIVE SumOver(_, _)
SumOver(f, S) ==
    IF S = {} THEN 0
    ELSE LET x == CHOOSE y \in S : TRUE
         IN  f[x] + SumOver(f, S \ {x})

\* the length of what json.dump(..., indent=2) writes for None or a string,
\* and for a boolean
json_value(v) == IF v = None THEN 4 ELSE 2 + chars(v)

json_bool(b) == IF b THEN 4 ELSE 5

\* ... and for a dictionary at nesting depth d whose members m[x] have keys
\* of m[x].k characters and values of length m[x].v: each member on a line of
\* its own, indented, the lines separated by commas
json_object(m, d) ==
    IF DOMAIN m = {} THEN 2
    ELSE 2
         + SumOver([x \in DOMAIN m |-> 2 * (d + 1) + m[x].k + 4 + m[x].v],
                   DOMAIN m)
         + 2 * (Cardinality(DOMAIN m) - 1)
         + 2 * d + 2

json_task(t) ==
    json_object([k \in DOMAIN t |-> [k |-> Len(k), v |-> json_value(t[k])]], 2)

json_sprint(sp) ==
    json_object([k \in DOMAIN sp |->
                    [k |-> Len(k),
                     v |-> IF k = "closed" THEN json_bool(sp[k])
                           ELSE json_value(sp[k])]], 2)

\* the number of characters save_data writes for the data
json_len(data) ==
    json_object(
        [x \in {"tasks", "sprints"} |->
            [k |-> Len(x),
             v |-> IF x = "tasks"
                   THEN json_object([c \in DOMAIN data.tasks |->
                            [k |-> chars(c), v |-> json_task(data.tasks[c])]], 1)
                   ELSE json_object([c \in DOMAIN data.sprints |->
                            [k |-> chars(c), v |-> json_sprint(data.sprints[c])]], 1)]],
        0)

----------------------------------------------------------------------------
(* Validation *)

validate_status(status) == status \in STATUSES

\* int() of the digit words the model's dates are written with
DigitWords == {"2023", "2024", "02", "29", "13"}

int(w) ==
    CASE w = "2023" -> 2023
      [] w = "2024" -> 2024
      [] w = "02" -> 2
      [] w = "29" -> 29
      [] w = "13" -> 13

IsLeap(y) == (y % 4 = 0 /\ y % 100 /= 0) \/ y % 400 = 0

DaysInMonth(y, m) ==
    IF m = 2 THEN (IF IsLeap(y) THEN 29 ELSE 28)
    ELSE IF m \in {4, 6, 9, 11} THEN 30 ELSE 31

\* datetime.strptime(s, "%Y-%m-%d") does not raise ValueError
strptime_ok(s) ==
    /\ Len(s) = 5
    /\ s[2] = "-" /\ s[4] = "-"
    /\ s[1] \in DigitWords /\ s[3] \in DigitWords /\ s[5] \in DigitWords
    /\ int(s[1]) \in 1..9999
    /\ int(s[3]) \in 1..12
    /\ int(s[5]) \in 1..DaysInMonth(int(s[1]), int(s[3]))

validate_date(date_str) == date_str = None \/ strptime_ok(date_str)

\* every value the model passes is a string or None
validate_time_value(value) == TRUE

get_open_sprints(data) ==
    {data.sprints[c] : c \in {x \in DOMAIN data.sprints : ~data.sprints[x].closed}}

----------------------------------------------------------------------------
(* What a handler did: the data it holds in memory when it returns, whether *)
(* it reached save_data, the line it printed, and for sprint close the      *)
(* number it printed.                                                       *)

Ret(data, save, out) == [data |-> data, save |-> save, out |-> out, moved |-> 0]

----------------------------------------------------------------------------
(* Tasks *)

NewTask(args) ==
    [code |-> args.code,
     name |-> args.name,
     start_date |-> args.start_date,
     review_date |-> args.review_date,
     end_date |-> args.end_date,
     status |-> args.status,
     sprint_code |-> args.sprint,
     comment |-> None,
     estimated_time |-> args.estimate,
     actual_time |-> None]

\* add_task without the test of sprint["closed"]
add_task_closed_unchecked(data, args) ==
    IF args.code \in DOMAIN data.tasks
    THEN Ret(data, FALSE, "Task already exists")
    ELSE IF ~validate_status(args.status)
    THEN Ret(data, FALSE, "Invalid status")
    ELSE IF \E d \in {args.start_date, args.review_date, args.end_date} :
                ~validate_date(d)
    THEN Ret(data, FALSE, "Invalid date format")
    ELSE IF Truthy(args.sprint) /\ args.sprint \notin DOMAIN data.sprints
    THEN Ret(data, FALSE, "Sprint not found")
    ELSE Ret([data EXCEPT !.tasks = DictSet(@, args.code, NewTask(args))],
             TRUE, "Task created")

\* add_task without the test for a task of the same code
add_task_overwriting(data, args) ==
    IF ~validate_status(args.status)
    THEN Ret(data, FALSE, "Invalid status")
    ELSE IF \E d \in {args.start_date, args.review_date, args.end_date} :
                ~validate_date(d)
    THEN Ret(data, FALSE, "Invalid date format")
    ELSE IF Truthy(args.sprint) /\ args.sprint \notin DOMAIN data.sprints
    THEN Ret(data, FALSE, "Sprint not found")
    ELSE IF Truthy(args.sprint) /\ data.sprints[args.sprint].closed
    THEN Ret(data, FALSE, "Sprint is closed")
    ELSE Ret([data EXCEPT !.tasks = DictSet(@, args.code, NewTask(args))],
             TRUE, "Task created")

add_task(data, args) ==
    IF args.code \in DOMAIN data.tasks
    THEN Ret(data, FALSE, "Task already exists")
    ELSE IF ~validate_status(args.status)
    THEN Ret(data, FALSE, "Invalid status")
    ELSE IF ~validate_time_value(args.estimate)
    THEN Ret(data, FALSE, "Time must be a string")
    ELSE IF \E d \in {args.start_date, args.review_date, args.end_date} :
                ~validate_date(d)
    THEN Ret(data, FALSE, "Invalid date format")
    ELSE IF Truthy(args.sprint) /\ args.sprint \notin DOMAIN data.sprints
    THEN Ret(data, FALSE, "Sprint not found")
    ELSE IF Truthy(args.sprint) /\ data.sprints[args.sprint].closed
    THEN Ret(data, FALSE, "Sprint is closed")
    ELSE Ret([data EXCEPT !.tasks = DictSet(@, args.code, NewTask(args))],
             TRUE, "Task created")

\* move_task refusing a task whose sprint is closed
move_task_open_sprint_only(data, args) ==
    IF args.code \notin DOMAIN data.tasks
    THEN Ret(data, FALSE, "Task not found")
    ELSE IF ~validate_status(args.status)
    THEN Ret(data, FALSE, "Invalid status")
    ELSE IF /\ data.tasks[args.code].sprint_code \in DOMAIN data.sprints
            /\ data.sprints[data.tasks[args.code].sprint_code].closed
    THEN Ret(data, FALSE, "Sprint is closed")
    ELSE Ret([data EXCEPT !.tasks[args.code].status = args.status],
             TRUE, "Task moved")

move_task(data, args) ==
    IF args.code \notin DOMAIN data.tasks
    THEN Ret(data, FALSE, "Task not found")
    ELSE IF ~validate_status(args.status)
    THEN Ret(data, FALSE, "Invalid status")
    ELSE Ret([data EXCEPT !.tasks[args.code].status = args.status],
             TRUE, "Task moved")

\* EditAbort with the file written all the same
EditAbortSaving(data, out) == Ret(data, TRUE, out)

\* a validation of task_edit fails: it returns, and save_data is not reached
EditAbort(data, out) == Ret(data, FALSE, out)

\* The task is changed in memory field by field, each field as soon as it
\* has passed its own validation; a later invalid field returns without
\* save_data.
task_edit(data, args) ==
    IF args.code \notin DOMAIN data.tasks
    THEN Ret(data, FALSE, "Task not found")
    ELSE
    LET t0 == data.tasks[args.code]
        With(t) == [data EXCEPT !.tasks[args.code] = t]
        t1 == IF Truthy(args.name) THEN [t0 EXCEPT !.name = args.name] ELSE t0
        t2 == IF Truthy(args.status)
              THEN [t1 EXCEPT !.status = args.status] ELSE t1
        t3 == IF args.estimate /= None
              THEN [t2 EXCEPT !.estimated_time = args.estimate] ELSE t2
        t4 == IF args.actual /= None
              THEN [t3 EXCEPT !.actual_time = args.actual] ELSE t3
        t5 == IF args.start_date /= None
              THEN [t4 EXCEPT !.start_date = args.start_date] ELSE t4
        t6 == IF args.review_date /= None
              THEN [t5 EXCEPT !.review_date = args.review_date] ELSE t5
        t7 == IF args.end_date /= None
              THEN [t6 EXCEPT !.end_date = args.end_date] ELSE t6
        updated == \/ Truthy(args.name) \/ Truthy(args.status)
                   \/ args.estimate /= None \/ args.actual /= None
                   \/ args.start_date /= None \/ args.review_date /= None
                   \/ args.end_date /= None
    IN  IF Truthy(args.status) /\ ~validate_status(args.status)
        THEN EditAbort(With(t1), "Invalid status")
        ELSE IF args.estimate /= None /\ ~validate_time_value(args.estimate)
        THEN EditAbort(With(t2), "Time must be a string")
        ELSE IF args.actual /= None /\ ~validate_time_value(args.actual)
        THEN EditAbort(With(t3), "Time must be a string")
        ELSE IF args.start_date /= None /\ ~validate_date(args.start_date)
        THEN EditAbort(With(t4), "Invalid date format")
        ELSE IF args.review_date /= None /\ ~validate_date(args.review_date)
        THEN EditAbort(With(t5), "Invalid date format")
        ELSE IF args.end_date /= None /\ ~validate_date(args.end_date)
        THEN EditAbort(With(t6), "Invalid date format")
        ELSE IF ~updated
        THEN Ret(With(t7), FALSE, "No changes provided")
        ELSE Ret(With(t7), TRUE, "Task updated")

----------------------------------------------------------------------------
(* Sprints *)

NewSprint(args) ==
    [code |-> args.code,
     name |-> args.name,
     start_date |-> args.start_date,
     end_date |-> args.end_date,
     closed |-> FALSE]

\* sprint_add without the test for a sprint of the same code
sprint_add_overwriting(data, args) ==
    Ret([data EXCEPT !.sprints = DictSet(@, args.code, NewSprint(args))],
        TRUE, "Sprint created")

sprint_add(data, args) ==
    IF args.code \in DOMAIN data.sprints
    THEN Ret(data, FALSE, "Sprint already exists")
    ELSE Ret([data EXCEPT !.sprints = DictSet(@, args.code, NewSprint(args))],
             TRUE, "Sprint created")

\* Unfinished without the test of the status
UnfinishedAnyStatus(tasks, code) ==
    {c \in DOMAIN tasks : tasks[c].sprint_code = code}

\* the tasks the loop of sprint_close sends back to the backlog
Unfinished(tasks, code) ==
    {c \in DOMAIN tasks : tasks[c].sprint_code = code /\ tasks[c].status /= DONE}

\* BackToBacklog without the assignment of None
BackToBacklogSkipped(tasks, code) == tasks

BackToBacklog(tasks, code) ==
    [c \in DOMAIN tasks |->
        IF c \in Unfinished(tasks, code)
        THEN [tasks[c] EXCEPT !.sprint_code = None]
        ELSE tasks[c]]

\* the sprint is there and open: the loop, closed = True, save_data
CloseSprint(data, code) ==
    [data |-> [tasks |-> BackToBacklog(data.tasks, code),
               sprints |-> [data.sprints EXCEPT ![code].closed = TRUE]],
     save |-> TRUE,
     out |-> "Sprint closed",
     moved |-> Cardinality(Unfinished(data.tasks, code))]

\* sprint_close without the test of sprint["closed"]
sprint_close_unguarded(data, args) ==
    IF args.code \notin DOMAIN data.sprints
    THEN Ret(data, FALSE, "Sprint not found")
    ELSE CloseSprint(data, args.code)

sprint_close(data, args) ==
    IF args.code \notin DOMAIN data.sprints
    THEN Ret(data, FALSE, "Sprint not found")
    ELSE IF data.sprints[args.code].closed
    THEN Ret(data, FALSE, "Sprint already closed")
    ELSE CloseSprint(data, args.code)

----------------------------------------------------------------------------
(* Board *)

\* the open sprint of board --current, when there is exactly one
CurrentSprint(data) == CHOOSE sp \in get_open_sprints(data) : TRUE

\* the codes of the tasks the scope selects: all of them, those of the open
\* sprint with --current, those of the sprint with --sprint (--current wins)
Selected(data, args) ==
    IF args.current
    THEN {c \in DOMAIN data.tasks :
             data.tasks[c].sprint_code = CurrentSprint(data).code}
    ELSE IF Truthy(args.sprint)
    THEN {c \in DOMAIN data.tasks : data.tasks[c].sprint_code = args.sprint}
    ELSE DOMAIN data.tasks

\* grouped[t["status"]] raises KeyError for a status that is not a key
KeyError(data, codes) == \E c \in codes : data.tasks[c].status \notin STATUSES

\* grouped, with the tasks of a bucket as a set of codes
grouped(data, codes) ==
    [st \in STATUSES |-> {c \in codes : data.tasks[c].status = st}]

\* what the loop over STATUS_ORDER prints: for each status in order its
\* heading and its tasks, or the placeholder when it has none
board(data, codes) ==
    [i \in 1..Len(STATUS_ORDER) |->
        [heading |-> STATUS_ORDER[i],
         tasks |-> grouped(data, codes)[STATUS_ORDER[i]],
         no_tasks |-> grouped(data, codes)[STATUS_ORDER[i]] = {}]]

\* board_tasks never reaches save_data; an uncaught KeyError ends the run
\* with a traceback
board_tasks(data, args) ==
    IF args.current /\ get_open_sprints(data) = {}
    THEN Ret(data, FALSE, "No active sprint found")
    ELSE IF args.current /\ Cardinality(get_open_sprints(data)) > 1
    THEN Ret(data, FALSE, "More than one active sprint found")
    ELSE IF ~args.current /\ Truthy(args.sprint)
            /\ args.sprint \notin DOMAIN data.sprints
    THEN Ret(data, FALSE, "Sprint not found")
    ELSE IF KeyError(data, Selected(data, args))
    THEN Ret(data, FALSE, "KeyError")
    ELSE Ret(data, FALSE, "KANBAN BOARD")

----------------------------------------------------------------------------
(* Task edit in the editor *)

\* f"{x}"
fstr(x) == IF x = None THEN Str("None") ELSE x

COMMENT_MARKER == <<"-", "-", "-", "COMMENT", "-", "-", "-">>

\* the text written to the temporary file
template(task) ==
       <<"#", SP, "Edit task fields below", NL>>
    \o <<"#", SP, "Lines starting with # are ignored", NL>>
    \o <<"#", SP, "Leave a value empty to keep current value", NL>>
    \o <<"#", SP, "-", "-", "-", NL>>
    \o <<NL>>
    \o <<"name", "=">> \o fstr(task.name) \o <<NL>>
    \o <<"status", "=">> \o fstr(task.status) \o <<NL>>
    \o <<"sprint", "=">> \o OrEmpty(task.sprint_code) \o <<NL>>
    \o <<"start_date", "=">> \o OrEmpty(task.start_date) \o <<NL>>
    \o <<"review_date", "=">> \o OrEmpty(task.review_date) \o <<NL>>
    \o <<"end_date", "=">> \o OrEmpty(task.end_date) \o <<NL>>
    \o <<"estimated_time", "=">> \o OrEmpty(task.estimated_time) \o <<NL>>
    \o <<"actual_time", "=">> \o OrEmpty(task.actual_time) \o <<NL>>
    \o <<NL>>
    \o COMMENT_MARKER \o <<NL>>
    \o OrEmpty(task.comment) \o <<NL>>

\* f.readlines(), each line without its "\n"
RECURSIVE readlines(_)
readlines(text) ==
    IF text = EmptyStr THEN << >>
    ELSE LET nls == {i \in 1..Len(text) : text[i] = NL}
         IN  IF nls = {} THEN <<text>>
             ELSE LET i == CHOOSE x \in nls : \A y \in nls : x <= y
                  IN  <<SubSeq(text, 1, i - 1)>>
                      \o readlines(SubSeq(text, i + 1, Len(text)))

\* "\n".join(lines)
RECURSIVE join(_)
join(lines) ==
    IF lines = << >> THEN EmptyStr
    ELSE IF Len(lines) = 1 THEN lines[1]
    ELSE lines[1] \o <<NL>> \o join(Tail(lines))

\* The dictionary `updates`, in insertion order: a sequence of [k, v] with
\* no key twice.
UpdSet(updates, k, v) ==
    IF \E i \in 1..Len(updates) : updates[i].k = k
    THEN [i \in 1..Len(updates) |->
            IF updates[i].k = k THEN [k |-> k, v |-> v] ELSE updates[i]]
    ELSE Append(updates, [k |-> k, v |-> v])

\* updates.get(key)
UpdGet(updates, key) ==
    IF \E i \in 1..Len(updates) : updates[i].k = Str(key)
    THEN updates[CHOOSE i \in 1..Len(updates) : updates[i].k = Str(key)].v
    ELSE None

\* line.split("=", 1)
SplitEq(line) ==
    LET i == CHOOSE x \in 1..Len(line) :
                 line[x] = "=" /\ \A y \in 1..(x - 1) : line[y] /= "="
    IN  [k |-> SubSeq(line, 1, i - 1), v |-> SubSeq(line, i + 1, Len(line))]

\* the loop over the lines read back: [updates, comment_lines]
RECURSIVE parse(_, _, _, _)
parse(lines, updates, comment_lines, in_comment) ==
    IF lines = << >>
    THEN [updates |-> updates, comment_lines |-> comment_lines]
    ELSE LET line == Head(lines)
             rest == Tail(lines)
         IN  IF line = COMMENT_MARKER
             THEN parse(rest, updates, comment_lines, TRUE)
             ELSE IF in_comment
             THEN parse(rest, updates, Append(comment_lines, line), TRUE)
             ELSE IF \/ line = EmptyStr
                     \/ line[1] = "#"
                     \/ \A i \in 1..Len(line) : line[i] /= "="
             THEN parse(rest, updates, comment_lines, FALSE)
             ELSE LET kv == SplitEq(line)
                      v == IF strip(kv.v) = EmptyStr THEN None ELSE strip(kv.v)
                  IN  parse(rest, UpdSet(updates, kv.k, v), comment_lines, FALSE)

TaskKeys ==
    {"code", "name", "start_date", "review_date", "end_date", "status",
     "sprint_code", "comment", "estimated_time", "actual_time"}

\* for k, v in updates.items(): ...
RECURSIVE apply(_, _)
apply(task, updates) ==
    IF updates = << >> THEN task
    ELSE LET k == Head(updates).k
             v == Head(updates).v
         IN  IF k = Str("sprint")
             THEN apply([task EXCEPT !.sprint_code = v], Tail(updates))
             ELSE IF Len(k) = 1 /\ k[1] \in TaskKeys
             THEN apply([task EXCEPT ![k[1]] = v], Tail(updates))
             ELSE apply(task, Tail(updates))

\* ViError without the test of sprint["closed"]
ViErrorClosedSprintMissed(data, updates) ==
    IF Truthy(UpdGet(updates, "status"))
       /\ ~validate_status(UpdGet(updates, "status"))
    THEN "Invalid status"
    ELSE IF \E d \in {"start_date", "review_date", "end_date"} :
                Truthy(UpdGet(updates, d)) /\ ~validate_date(UpdGet(updates, d))
    THEN "Invalid date format"
    ELSE IF Truthy(UpdGet(updates, "sprint"))
            /\ UpdGet(updates, "sprint") \notin DOMAIN data.sprints
    THEN "Sprint not found"
    ELSE ""

\* The checks between the parse and the first change of the task: the line
\* printed by the first one that fails, "" when none does.
ViError(data, updates) ==
    IF Truthy(UpdGet(updates, "status"))
       /\ ~validate_status(UpdGet(updates, "status"))
    THEN "Invalid status"
    ELSE IF \E d \in {"start_date", "review_date", "end_date"} :
                Truthy(UpdGet(updates, d)) /\ ~validate_date(UpdGet(updates, d))
    THEN "Invalid date format"
    ELSE IF \E t \in {"estimated_time", "actual_time"} :
                Truthy(UpdGet(updates, t))
                /\ ~validate_time_value(UpdGet(updates, t))
    THEN "Time must be a string"
    ELSE IF Truthy(UpdGet(updates, "sprint"))
            /\ UpdGet(updates, "sprint") \notin DOMAIN data.sprints
    THEN "Sprint not found"
    ELSE IF Truthy(UpdGet(updates, "sprint"))
            /\ data.sprints[UpdGet(updates, "sprint")].closed
    THEN "Sprint is closed"
    ELSE ""

\* args.text is what the temporary file holds when the editor has returned
task_edit_vi(data, args) ==
    IF args.code \notin DOMAIN data.tasks
    THEN Ret(data, FALSE, "Task not found")
    ELSE
    LET task == data.tasks[args.code]
        p == parse(readlines(args.text), << >>, << >>, FALSE)
        comment == rstrip(join(p.comment_lines))
        edited == [apply(task, p.updates) EXCEPT
                      !.comment = IF strip(comment) /= EmptyStr
                                  THEN comment ELSE None]
        error == ViError(data, p.updates)
    IN  IF error /= ""
        THEN Ret(data, FALSE, error)
        ELSE Ret([data EXCEPT !.tasks[args.code] = edited],
                 TRUE, "Task updated via editor")

----------------------------------------------------------------------------
(* Task comments *)

\* args.text is what the temporary file holds when the editor has returned
edit_task_comment(data, args) ==
    IF args.code \notin DOMAIN data.tasks
    THEN Ret(data, FALSE, "Task not found")
    ELSE
    LET content == rstrip_nl(args.text)
    IN  Ret([data EXCEPT !.tasks[args.code].comment =
                IF strip(content) /= EmptyStr THEN content ELSE None],
            TRUE, "Comment updated")

----------------------------------------------------------------------------
(* The editor session of task vi and task comment: the temporary file is   *)
(* created and written, the editor is called on it, the file is read back  *)
(* and removed.  An editor is [launch, exit, keep, text]: whether the       *)
(* program named by EDITOR can be started, the status it exits with, and    *)
(* whether it leaves the file as written or leaves text in it.              *)

\* subprocess.call([editor, path]): the return value is not looked at; an
\* editor that cannot be started raises FileNotFoundError, which nothing
\* catches
subprocess_call(editor, written) ==
    [raised |-> ~editor.launch,
     returncode |-> editor.exit,
     content |-> IF editor.keep THEN written ELSE editor.text]

\* What an editor session did: the result of the handler, and the number of
\* temporary files it left behind.
Session(r, left) == [r |-> r, left |-> left]

\* task_edit_vi from the lookup of the task to os.unlink, then the rest of
\* the handler on the text read back
vi_session(data, args) ==
    IF args.code \notin DOMAIN data.tasks
    THEN Session(Ret(data, FALSE, "Task not found"), 0)
    ELSE LET called == subprocess_call(args.editor,
                                       template(data.tasks[args.code]))
         IN  IF called.raised
             THEN Session(Ret(data, FALSE, "FileNotFoundError"), 1)
             ELSE Session(task_edit_vi(data, [code |-> args.code,
                                              text |-> called.content]), 0)

\* edit_task_comment likewise; the file is written only for a task with a
\* comment
comment_session(data, args) ==
    IF args.code \notin DOMAIN data.tasks
    THEN Session(Ret(data, FALSE, "Task not found"), 0)
    ELSE LET called == subprocess_call(args.editor,
                                       OrEmpty(data.tasks[args.code].comment))
         IN  IF called.raised
             THEN Session(Ret(data, FALSE, "FileNotFoundError"), 1)
             ELSE Session(edit_task_comment(data, [code |-> args.code,
                                                   text |-> called.content]), 0)

----------------------------------------------------------------------------
(* Commands.  One command is one run of the program: main() parses the     *)
(* arguments and calls the handler, which loads kanban.json, and writes it *)
(* back only on the paths that reach save_data.                            *)
(*                                                                         *)
(* pre and last are history variables.  A behaviour is a sequence of       *)
(* commands; any one of them may be taken as the command under             *)
(* observation, which is then recorded in last, with kanban.json as it was *)
(* before it in pre, and ends the behaviour.  The commands before it leave *)
(* last alone and keep pre equal to file.                                  *)

\* the file after a handler has returned
Commit(f, r) == IF r.save THEN save_data(r.data) ELSE f

NoCommand == [op |-> "none", args |-> << >>, out |-> "", moved |-> 0]

\* one run of the program, apart from its temporary file
Step(op, args, r, max) ==
    /\ last = NoCommand
    /\ nops < max
    /\ nops' = nops + 1
    /\ file' = Commit(file, r)
    /\ \/ /\ pre' = file'
          /\ last' = last
       \/ /\ pre' = file
          /\ last' = [op |-> op, args |-> args, out |-> r.out, moved |-> r.moved]

\* a run of a handler that creates no temporary file
Run(op, args, r, max) ==
    /\ Step(op, args, r, max)
    /\ tmp' = tmp
    /\ proc' = proc

AddTask(Args, max) ==
    \E a \in Args : Run("add", a, add_task(load_data(file), a), max)

MoveTask(Args, max) ==
    \E a \in Args : Run("move", a, move_task(load_data(file), a), max)

TaskEdit(Args, max) ==
    \E a \in Args : Run("task edit", a, task_edit(load_data(file), a), max)

TaskEditVi(Args, max) ==
    \E a \in Args : Run("task vi", a, task_edit_vi(load_data(file), a), max)

TaskComment(Args, max) ==
    \E a \in Args :
        Run("task comment", a, edit_task_comment(load_data(file), a), max)

SprintAdd(Args, max) ==
    \E a \in Args : Run("sprint add", a, sprint_add(load_data(file), a), max)

SprintClose(Args, max) ==
    \E a \in Args : Run("sprint close", a, sprint_close(load_data(file), a), max)

\* a run of a handler with an editor session
RunSession(op, args, s, max) ==
    /\ Step(op, args, s.r, max)
    /\ tmp' = tmp + s.left
    /\ proc' = proc

TaskEditViSession(Args, max) ==
    \E a \in Args : RunSession("task vi", a, vi_session(load_data(file), a), max)

TaskCommentSession(Args, max) ==
    \E a \in Args :
        RunSession("task comment", a, comment_session(load_data(file), a), max)

Board(Args, max) ==
    \E a \in Args : Run("board", a, board_tasks(load_data(file), a), max)

----------------------------------------------------------------------------
(* Invocations at the same time.  Each is a run of the program of its own:  *)
(* it loads kanban.json, runs its handler on what it loaded, and on the      *)
(* paths that reach save_data opens kanban.json for writing, which truncates *)
(* it, and then writes its data from the start of the file.  Nothing locks   *)
(* the file.  A file that does not hold one JSON value is                    *)
(* [exists |-> TRUE, content |-> [garbage |-> its length]].                  *)

Procs == {1, 2}

Idle == [pc |-> "idle", op |-> "none", args |-> << >>, data |-> EmptyData,
         seen |-> 0, opened |-> 0, wrote |-> 0]

Garbage(n) == [exists |-> TRUE, content |-> [garbage |-> n]]

\* json.load does not raise JSONDecodeError
IsJSON(f) == ~f.exists \/ "garbage" \notin DOMAIN f.content

\* the length of the file
file_len(f) ==
    IF ~f.exists THEN 0
    ELSE IF IsJSON(f) THEN json_len(f.content)
    ELSE f.content.garbage

\* open(DATA_FILE, "w")
open_w(f) == Garbage(0)

\* json.dump and the close of a file opened for writing, when the file has
\* become f since: the data, which is shorter than the buffer of the file
\* object and so written at once, replaces the start of the file, and what
\* the file holds beyond the length of the data stays
write(f, data) ==
    IF json_len(data) >= file_len(f) THEN save_data(data)
    ELSE Garbage(file_len(f))

\* the number of times kanban.json has been opened for writing or written
\* by the invocations
Events ==
    Cardinality({p \in Procs : proc[p].opened > 0})
    + Cardinality({p \in Procs : proc[p].wrote > 0})

Handler(op, data, args) ==
    IF op = "add" THEN add_task(data, args) ELSE move_task(data, args)

\* InMemory with the file read again when save_data is reached
InMemoryReloaded(p) ==
    IF IsJSON(file) THEN load_data(file) ELSE proc[p].data

\* the data the handler of invocation p works on: what its load_data
\* returned
InMemory(p) == proc[p].data

\* data = load_data() of a run of the handler of op
Load(p, op, Args) ==
    \E a \in Args :
        /\ last = NoCommand
        /\ proc[p].pc = "idle"
        /\ proc' = [proc EXCEPT ![p] =
              IF IsJSON(file)
              THEN [Idle EXCEPT !.pc = "loaded", !.op = op, !.args = a,
                                !.data = load_data(file), !.seen = Events]
              ELSE [Idle EXCEPT !.pc = "raised", !.op = op, !.args = a,
                                !.seen = Events]]
        /\ UNCHANGED <<file, pre, last, nops, tmp>>

\* the handler from its load_data to the open of save_data, or to its return
\* where it does not reach save_data
Open(p) ==
    /\ proc[p].pc = "loaded"
    /\ LET r == Handler(proc[p].op, InMemory(p), proc[p].args)
       IN  IF r.save
           THEN /\ file' = open_w(file)
                /\ proc' = [proc EXCEPT ![p].pc = "opened",
                                        ![p].data = r.data,
                                        ![p].opened = Events + 1]
           ELSE /\ file' = file
                /\ proc' = [proc EXCEPT ![p].pc = "returned"]
    /\ UNCHANGED <<pre, last, nops, tmp>>

\* json.dump and the close of the file
Write(p) ==
    /\ proc[p].pc = "opened"
    /\ file' = write(file, proc[p].data)
    /\ proc' = [proc EXCEPT ![p].pc = "saved", ![p].wrote = Events + 1]
    /\ UNCHANGED <<pre, last, nops, tmp>>

\* a command run on its own, before any invocation of the others has started
Alone(A) ==
    /\ \A p \in Procs : proc[p].pc = "idle"
    /\ A
    /\ pre' = file'

Init ==
    /\ file = [exists |-> FALSE, content |-> EmptyData]
    /\ pre = file
    /\ last = NoCommand
    /\ nops = 0
    /\ tmp = 0
    /\ proc = [p \in Procs |-> Idle]

----------------------------------------------------------------------------
(* Bounds and inputs *)

\* the longest sequence of task and sprint lifecycle commands (Spec)
MaxOps == 5

\* the longest sequence of commands when the edit commands are among them
\* (SpecEdit)
MaxEditOps == 4

T1 == Str("T1")
T2 == Str("T2")
S1 == Str("S1")
S2 == Str("S2")
TODO == Str("TODO")
BLOCKED == Str("BLOCKED")              \* not a status
GOOD_DATE == <<"2024", "-", "02", "-", "29">>
BAD_DATE == <<"2023", "-", "02", "-", "29">>   \* 2023 has no 29 February

TaskCodes == {T1, T2}
SprintCodes == {S1, S2}

\* add --code --name --status [--sprint] [--estimate] [--start-date]
\*     [--review-date] [--end-date]
AddArgs ==
    [code : TaskCodes, name : {Str("A")}, status : {TODO, DONE, BLOCKED},
     sprint : {None, EmptyStr} \cup SprintCodes, estimate : {None},
     start_date : {None}, review_date : {None}, end_date : {None, BAD_DATE}]

\* move <code> <status>
MoveArgs == [code : TaskCodes, status : STATUSES \cup {BLOCKED}]

\* sprint add --code --name --start-date --end-date
SprintAddArgs ==
    [code : SprintCodes, name : {Str("Sprint")}, start_date : {Str("Monday")},
     end_date : {GOOD_DATE}]

\* sprint close <code>
SprintCloseArgs == [code : SprintCodes]

\* the most optional flags one task edit command is given
MaxFlags == 2

\* task edit <code> [--name] [--status] [--estimate] [--actual]
\*     [--start-date] [--review-date] [--end-date]
EditFlags ==
    {"name", "status", "estimate", "actual", "start_date", "review_date",
     "end_date"}

FlagsGiven(a) == {f \in EditFlags : a[f] /= None}

TaskEditArgs ==
    {a \in [code : {T1}, name : {None, Str("B")},
            status : {None, EmptyStr, DONE, BLOCKED},
            estimate : {None, Str("2h")}, actual : {None, Str("3h")},
            start_date : {None, GOOD_DATE},
            review_date : {None, BAD_DATE}, end_date : {None, BAD_DATE}] :
        Cardinality(FlagsGiven(a)) <= MaxFlags}

\* lines the user may leave in the temporary file of task vi
ViName == <<"name", "=", "B">>

ViLines ==
    { ViName,
      <<"#", SP, "status", "=", "DONE">>,
      <<"status", "=">>,
      <<"status", "=", SP>>,
      <<"status", "=", "DONE">>,
      <<"status", "=", "BLOCKED">>,
      <<"sprint", "=">>,
      <<"sprint", "=", "S1">>,
      <<"start_date", "=">> \o BAD_DATE,
      <<"code", "=", "T2">>,
      <<"sprint_code", "=", "S2">>,
      <<"priority", "=", "B">> }

\* the field part of the file: no line, one line, or the name and one more
\* line
ViFields ==
    {EmptyStr}
    \cup {l \o <<NL>> : l \in ViLines}
    \cup {ViName \o <<NL>> \o l \o <<NL>> : l \in ViLines \ {ViName}}

ViNote == COMMENT_MARKER \o <<NL, "note", NL>>

\* the whole file: the field part, and for those of at most one line also
\* with a comment part
ViTexts ==
    ViFields
    \cup {ViNote}
    \cup {l \o <<NL>> \o ViNote : l \in ViLines}

ViArgs == [code : {T1}, text : ViTexts]

\* what the user may leave in the temporary file of task comment
CommentArgs ==
    [code : {T1}, text : {EmptyStr, <<SP, NL>>, <<"note", NL>>}]

\* Spec: the commands that create and move tasks and create and close
\* sprints, on two tasks and two sprints.
Next ==
    \/ AddTask(AddArgs, MaxOps)
    \/ MoveTask(MoveArgs, MaxOps)
    \/ SprintAdd(SprintAddArgs, MaxOps)
    \/ SprintClose(SprintCloseArgs, MaxOps)

Spec == Init /\ [][Next]_vars

\* with the edit commands: one task, and move to one status or to none
EditAddArgs == {a \in AddArgs : a.code = T1}
EditMoveArgs == {a \in MoveArgs : a.code = T1 /\ a.status \in {Str("REVIEW"), BLOCKED}}

\* SpecEdit: every command that writes kanban.json, on one task and two
\* sprints.
NextEdit ==
    \/ AddTask(EditAddArgs, MaxEditOps)
    \/ MoveTask(EditMoveArgs, MaxEditOps)
    \/ SprintAdd(SprintAddArgs, MaxEditOps)
    \/ SprintClose(SprintCloseArgs, MaxEditOps)
    \/ TaskEdit(TaskEditArgs, MaxEditOps)
    \/ TaskEditVi(ViArgs, MaxEditOps)
    \/ TaskComment(CommentArgs, MaxEditOps)

SpecEdit == Init /\ [][NextEdit]_vars

\* the longest sequence of commands when board is among them (SpecBoard)
MaxBoardOps == 4

\* task vi leaving one line, with a status, with none, or with a sprint
BoardViArgs ==
    [code : TaskCodes,
     text : {<<"status", "=", "REVIEW", NL>>, <<"status", "=", NL>>,
             <<"sprint", "=", "S1", NL>>}]

\* board [--sprint <code>] [--current]
BoardArgs == [current : BOOLEAN, sprint : {None, S1, S2}]

\* SpecBoard: board after the commands that create tasks and sprints, close
\* sprints and edit a task in the editor, on two tasks and two sprints.
NextBoard ==
    \/ AddTask(AddArgs, MaxBoardOps)
    \/ SprintAdd(SprintAddArgs, MaxBoardOps)
    \/ SprintClose(SprintCloseArgs, MaxBoardOps)
    \/ TaskEditVi(BoardViArgs, MaxBoardOps)
    \/ Board(BoardArgs, MaxBoardOps)

SpecBoard == Init /\ [][NextBoard]_vars

\* the longest sequence of commands when the editor sessions are among
\* them (SpecEditor)
MaxEditorOps == 4

\* the program named by EDITOR cannot be started
NoEditor == [launch |-> FALSE, exit |-> 0, keep |-> TRUE, text |-> EmptyStr]

\* editors that start: they exit with 0 or 1, and leave the file as it was
\* written or leave one of the texts in it
Editors(Texts) ==
    [launch : {TRUE}, exit : {0, 1}, keep : {TRUE}, text : {EmptyStr}]
    \cup [launch : {TRUE}, exit : {0, 1}, keep : {FALSE}, text : Texts]

EditorAddArgs ==
    {a \in AddArgs : /\ a.code = T1
                     /\ a.status \in STATUSES
                     /\ a.sprint \in {None, S1}
                     /\ a.end_date = None}

EditorSprintAddArgs == {a \in SprintAddArgs : a.code = S1}

EditorSprintCloseArgs == {a \in SprintCloseArgs : a.code = S1}

ViSessionArgs ==
    [code : {T1},
     editor : {NoEditor}
              \cup Editors({ViName \o <<NL>>, <<"sprint", "=", "S1", NL>>,
                            ViNote})]

CommentSessionArgs ==
    [code : {T1}, editor : {NoEditor} \cup Editors({EmptyStr, <<"note", NL>>})]

\* SpecEditor: task vi and task comment with their editor sessions, after
\* the commands that create a task and create and close a sprint.
NextEditor ==
    \/ AddTask(EditorAddArgs, MaxEditorOps)
    \/ SprintAdd(EditorSprintAddArgs, MaxEditorOps)
    \/ SprintClose(EditorSprintCloseArgs, MaxEditorOps)
    \/ TaskEditViSession(ViSessionArgs, MaxEditorOps)
    \/ TaskCommentSession(CommentSessionArgs, MaxEditorOps)

SpecEditor == Init /\ [][NextEditor]_vars

\* the most commands run one after the other before the two invocations
\* (SpecConcurrent)
MaxSetupOps == 2

ConcAddArgs ==
    {a \in AddArgs : /\ a.status \in STATUSES
                     /\ a.sprint = None
                     /\ a.end_date = None}

ConcMoveArgs ==
    {a \in MoveArgs : a.status \in {Str("REVIEW"), DONE, BLOCKED}}

\* SpecConcurrent: some adds one after the other, then an add or a move in
\* each of two invocations that run at the same time, their loads, opens and
\* writes interleaved in every order.
NextConcurrent ==
    \/ Alone(AddTask(ConcAddArgs, MaxSetupOps))
    \/ \E p \in Procs : Load(p, "add", ConcAddArgs)
    \/ \E p \in Procs : Load(p, "move", ConcMoveArgs)
    \/ \E p \in Procs : Open(p)
    \/ \E p \in Procs : Write(p)

SpecConcurrent == Init /\ [][NextConcurrent]_vars

----------------------------------------------------------------------------
(* The claims.  Before and After are the data of kanban.json before and    *)
(* after the command under observation.                                    *)

Before == load_data(pre)
After == load_data(file)
Observed(op) == last.op = op

\* the sprint close under observation found its sprint, and found it open
ClosesOpenSprint ==
    /\ Observed("sprint close")
    /\ last.args.code \in DOMAIN Before.sprints
    /\ ~Before.sprints[last.args.code].closed

\* the tasks whose sprint_code the command under observation changed to None
ResetTasks ==
    {c \in DOMAIN Before.tasks :
        Before.tasks[c].sprint_code /= None /\ After.tasks[c].sprint_code = None}

\* C1: a sprint close of an existing, open sprint succeeds; it sets
\* sprint_code to None on every task of that sprint whose status is not DONE,
\* leaves the sprint_code of the sprint's DONE tasks, sets closed, and prints
\* the number of tasks whose sprint_code it reset.
C1_SprintCloseCascade ==
    ClosesOpenSprint =>
        LET code == last.args.code
        IN  /\ last.out = "Sprint closed"
            /\ DOMAIN After.tasks = DOMAIN Before.tasks
            /\ \A c \in DOMAIN Before.tasks :
                  LET t == Before.tasks[c]
                  IN  /\ (t.sprint_code = code /\ t.status /= DONE)
                            => After.tasks[c].sprint_code = None
                      /\ (t.sprint_code = code /\ t.status = DONE)
                            => After.tasks[c].sprint_code = code
            /\ After.sprints[code].closed
            /\ last.moved = Cardinality(ResetTasks)

\* a sprint with a DONE task and an unfinished task has been closed
C1_Witness ==
    /\ ClosesOpenSprint
    /\ last.moved = 1
    /\ \E c \in DOMAIN Before.tasks, d \in DOMAIN Before.tasks :
          /\ Before.tasks[c].sprint_code = last.args.code
          /\ Before.tasks[c].status = Str("REVIEW")
          /\ Before.tasks[d].sprint_code = last.args.code
          /\ Before.tasks[d].status = DONE

\* the sprint close under observation found its sprint already closed
ClosesClosedSprint ==
    /\ Observed("sprint close")
    /\ last.args.code \in DOMAIN Before.sprints
    /\ Before.sprints[last.args.code].closed

\* C10: a sprint close of a closed sprint prints "Sprint already closed" and
\* leaves kanban.json as it was: the sprint closed, every task's sprint_code
\* unchanged.
C10_SecondCloseRejected ==
    ClosesClosedSprint =>
        /\ last.out = "Sprint already closed"
        /\ file = pre

\* a closed sprint with an unfinished task in it has been closed again
C10_Witness ==
    /\ ClosesClosedSprint
    /\ \E c \in DOMAIN Before.tasks :
          /\ Before.tasks[c].sprint_code = last.args.code
          /\ Before.tasks[c].status /= DONE

----------------------------------------------------------------------------
(* Claims about the edit commands, under SpecEdit *)

\* the task the command under observation names was there
OnExistingTask(op) ==
    /\ Observed(op)
    /\ last.args.code \in DOMAIN Before.tasks

TaskBefore == Before.tasks[last.args.code]
TaskAfter == After.tasks[last.args.code]

\* a flag of task edit that is given and does not pass its validation
InvalidFlag(a) ==
    \/ Truthy(a.status) /\ a.status \notin STATUSES
    \/ \E f \in {"start_date", "review_date", "end_date"} :
          a[f] /= None /\ ~strptime_ok(a[f])

\* C2: a task edit of an existing task with a flag that fails validation
\* leaves kanban.json as it was, whatever valid flags come before the
\* invalid one.
C2_TaskEditAllOrNothing ==
    (OnExistingTask("task edit") /\ InvalidFlag(last.args)) => file = pre

\* a task edit with a new name and, last in the order of validation, an
\* invalid end date
C2_Witness ==
    /\ OnExistingTask("task edit")
    /\ Truthy(last.args.name)
    /\ last.args.name /= TaskBefore.name
    /\ last.args.end_date = BAD_DATE

\* the dictionary `updates` of the task vi under observation
Updates == parse(readlines(last.args.text), << >>, << >>, FALSE).updates

HasKey(updates, key) == \E i \in 1..Len(updates) : updates[i].k = Str(key)

RecognisedKeys ==
    {"name", "status", "sprint", "start_date", "review_date", "end_date",
     "estimated_time", "actual_time"}

\* the field of the task a recognised key stands for
FieldOf(key) == IF key = "sprint" THEN "sprint_code" ELSE key

\* C3: in task vi, a recognised key whose value is empty after trimming
\* leaves its field of the task as it was.
C3_EmptyValueKeepsField ==
    OnExistingTask("task vi") =>
        LET u == Updates
        IN  \A key \in RecognisedKeys :
                (HasKey(u, key) /\ UpdGet(u, key) = None)
                    => TaskAfter[FieldOf(key)] = TaskBefore[FieldOf(key)]

\* C4: a sprint that is closed stays in the store and stays closed; the flag
\* of a sprint changes only in a sprint close of that sprint, from false to
\* true; a sprint that is new in the store is open.
C4_ClosedIsMonotonic ==
    /\ \A s \in DOMAIN Before.sprints :
          /\ s \in DOMAIN After.sprints
          /\ Before.sprints[s].closed => After.sprints[s].closed
          /\ After.sprints[s].closed /= Before.sprints[s].closed
                => /\ Observed("sprint close")
                   /\ last.args.code = s
                   /\ ~Before.sprints[s].closed
    /\ \A s \in DOMAIN After.sprints \ DOMAIN Before.sprints :
          /\ Observed("sprint add")
          /\ ~After.sprints[s].closed

\* a sprint add with the code of a closed sprint
C4_Witness ==
    /\ Observed("sprint add")
    /\ last.args.code \in DOMAIN Before.sprints
    /\ Before.sprints[last.args.code].closed
    /\ last.out = "Sprint already exists"

\* a command is under observation
SomeCommand == last /= NoCommand

\* C5: after any command, the status of every task in kanban.json is one of
\* the five statuses.
C5_StatusIsValid ==
    SomeCommand =>
        \A c \in DOMAIN After.tasks : After.tasks[c].status \in STATUSES

\* C6: after any command, the sprint_code of every task in kanban.json is
\* unset or the code of a sprint in kanban.json.  Unset is None, and here
\* also the empty string, which add stores for --sprint "".
C6_SprintCodeRefersToSprint ==
    SomeCommand =>
        \A c \in DOMAIN After.tasks :
            \/ ~Truthy(After.tasks[c].sprint_code)
            \/ After.tasks[c].sprint_code \in DOMAIN After.sprints

\* the parsed text u has a status, a date or a sprint that task vi must
\* refuse
InvalidText(u) ==
    \/ /\ Truthy(UpdGet(u, "status"))
       /\ UpdGet(u, "status") \notin STATUSES
    \/ \E d \in {"start_date", "review_date", "end_date"} :
          Truthy(UpdGet(u, d)) /\ ~strptime_ok(UpdGet(u, d))
    \/ /\ Truthy(UpdGet(u, "sprint"))
       /\ \/ UpdGet(u, "sprint") \notin DOMAIN Before.sprints
          \/ Before.sprints[UpdGet(u, "sprint")].closed

\* C7: a task vi whose text has an invalid status, an invalid date, or a
\* sprint that is missing or closed leaves kanban.json as it was: no field of
\* the task and not its comment is changed.
C7_ViAbortsAsAUnit ==
    OnExistingTask("task vi") =>
        LET u == Updates
        IN  InvalidText(u) => file = pre

\* a task vi with a new name, a comment and a closed sprint
C7_Witness ==
    /\ OnExistingTask("task vi")
    /\ LET u == Updates
       IN  /\ UpdGet(u, "name") /= None
           /\ UpdGet(u, "name") /= TaskBefore.name
           /\ Truthy(UpdGet(u, "sprint"))
           /\ UpdGet(u, "sprint") \in DOMAIN Before.sprints
           /\ Before.sprints[UpdGet(u, "sprint")].closed

\* C8: every task is stored under its own code, and no command changes the
\* code of a task or the key it is stored under.
C8_CodeIsImmutable ==
    SomeCommand =>
        /\ \A c \in DOMAIN After.tasks : After.tasks[c].code = c
        /\ \A c \in DOMAIN Before.tasks :
              /\ c \in DOMAIN After.tasks
              /\ After.tasks[c].code = Before.tasks[c].code

\* C9: a task vi whose key=value lines all have keys outside the eight
\* recognised ones changes no field of the task (the comment block apart,
\* which always replaces the comment).
C9_UnknownKeysIgnored ==
    OnExistingTask("task vi") =>
        LET u == Updates
        IN  (\A i \in 1..Len(u) : \A key \in RecognisedKeys : u[i].k /= Str(key))
                => [TaskAfter EXCEPT !.comment = TaskBefore.comment] = TaskBefore

----------------------------------------------------------------------------
(* Claims about add and move, under Spec *)

\* the sprint an add names is missing from the store or closed
SprintUnusable(data, sprint) ==
    \/ sprint \notin DOMAIN data.sprints
    \/ data.sprints[sprint].closed

\* C11: an add whose --sprint names a sprint that is not in the store or is
\* closed does not create the task and leaves kanban.json as it was.
C11_NoCreateIntoUnusableSprint ==
    (/\ Observed("add")
     /\ Truthy(last.args.sprint)
     /\ SprintUnusable(Before, last.args.sprint))
        => /\ last.out /= "Task created"
           /\ file = pre

\* an add of a new task, valid but for its sprint, which is closed
C11_Witness ==
    /\ Observed("add")
    /\ last.args.code \notin DOMAIN Before.tasks
    /\ last.args.sprint \in DOMAIN Before.sprints
    /\ Before.sprints[last.args.sprint].closed
    /\ last.out = "Sprint is closed"

\* C12: an add with the code of a task in the store prints "Task already
\* exists" and leaves kanban.json as it was, whatever else it is given.
C12_DuplicateCreateRejected ==
    (Observed("add") /\ last.args.code \in DOMAIN Before.tasks)
        => /\ last.out = "Task already exists"
           /\ file = pre

\* an add with the code of a task in the store, with another valid status
\* and an open sprint the task is not in
C12_Witness ==
    /\ OnExistingTask("add")
    /\ last.args.status \in STATUSES
    /\ last.args.status /= TaskBefore.status
    /\ last.args.end_date = None
    /\ last.args.sprint \in DOMAIN Before.sprints
    /\ ~Before.sprints[last.args.sprint].closed
    /\ last.args.sprint /= TaskBefore.sprint_code

\* C13: a move of a task in the store to one of the five statuses succeeds
\* whatever the task's status and whatever the state of its sprint, and
\* changes the status of that task and nothing else; a move to any other
\* status fails and leaves kanban.json as it was.
C13_MoveIsUnrestricted ==
    OnExistingTask("move") =>
        IF last.args.status \in STATUSES
        THEN /\ last.out = "Task moved"
             /\ After = [Before EXCEPT
                            !.tasks[last.args.code].status = last.args.status]
        ELSE /\ last.out = "Invalid status"
             /\ file = pre

\* a DONE task of a closed sprint has been moved back to TODO
C13_Witness ==
    /\ OnExistingTask("move")
    /\ TaskBefore.status = DONE
    /\ TaskBefore.sprint_code \in DOMAIN Before.sprints
    /\ Before.sprints[TaskBefore.sprint_code].closed
    /\ last.args.status = TODO
    /\ TaskAfter.status = TODO

----------------------------------------------------------------------------
(* Claims about the tasks of a closed sprint, under SpecEdit *)

\* the tasks of the data whose sprint_code is the code
TasksOf(data, code) ==
    {c \in DOMAIN data.tasks : data.tasks[c].sprint_code = code}

ClosedSprints(data) == {s \in DOMAIN data.sprints : data.sprints[s].closed}

\* C18 as claimed: after any command, every task whose sprint_code names a
\* closed sprint has status DONE.
C18_ClosedSprintHoldsOnlyDone ==
    SomeCommand =>
        \A s \in ClosedSprints(After) : \A c \in TasksOf(After, s) :
            After.tasks[c].status = DONE

\* C18 as amended: when a sprint close has closed a sprint, every task whose
\* sprint_code names that sprint has status DONE.
C18_ClosedSprintHoldsOnlyDoneAtClose ==
    ClosesOpenSprint =>
        \A c \in TasksOf(After, last.args.code) : After.tasks[c].status = DONE

\* a sprint close has closed a sprint and left a task in it
C18_Witness ==
    /\ ClosesOpenSprint
    /\ TasksOf(After, last.args.code) /= {}

\* C19: no command adds a task to the tasks whose sprint_code names a sprint
\* that was closed before the command.
C19_ClosedSprintGainsNoTask ==
    SomeCommand =>
        \A s \in ClosedSprints(Before) :
            TasksOf(After, s) \subseteq TasksOf(Before, s)

----------------------------------------------------------------------------
(* Claims about board, under SpecBoard *)

OpenSprints(data) == {c \in DOMAIN data.sprints : ~data.sprints[c].closed}

\* the codes of the tasks in the buckets a board printed
Rendered(b) == UNION {b[i].tasks : i \in 1..Len(b)}

\* C14: board --current prints "No active sprint found" when no sprint is
\* open and "More than one active sprint found" when two or more are; when
\* exactly one is open it prints the board of exactly the tasks whose
\* sprint_code is that sprint; in all three cases kanban.json is as it was.
C14_CurrentBoard ==
    (Observed("board") /\ last.args.current) =>
        /\ file = pre
        /\ Cardinality(OpenSprints(Before)) = 0
              => last.out = "No active sprint found"
        /\ Cardinality(OpenSprints(Before)) > 1
              => last.out = "More than one active sprint found"
        /\ Cardinality(OpenSprints(Before)) = 1
              => /\ last.out = "KANBAN BOARD"
                 /\ \E sp \in OpenSprints(Before) :
                       Rendered(board(Before, Selected(Before, last.args)))
                           = {c \in DOMAIN Before.tasks :
                                 Before.tasks[c].sprint_code = sp}

\* C15: board with neither --current nor --sprint completes and prints the
\* five buckets in the order TODO, IN_PROGRESS, REVIEW, TESTING_DEPLOYMENT,
\* DONE, an empty one with its placeholder, and every task in the bucket of
\* its status and in no other.
C15_BoardOfAllTasks ==
    (Observed("board") /\ ~last.args.current /\ ~Truthy(last.args.sprint)) =>
        LET b == board(Before, Selected(Before, last.args))
        IN  /\ last.out = "KANBAN BOARD"
            /\ [i \in 1..Len(b) |-> b[i].heading]
                  = <<Str("TODO"), Str("IN_PROGRESS"), Str("REVIEW"),
                      Str("TESTING_DEPLOYMENT"), Str("DONE")>>
            /\ \A i \in 1..Len(b) : b[i].no_tasks <=> b[i].tasks = {}
            /\ \A c \in DOMAIN Before.tasks : \A i \in 1..Len(b) :
                  c \in b[i].tasks <=> Before.tasks[c].status = b[i].heading

----------------------------------------------------------------------------
(* Claims about the editor sessions, under SpecEditor *)

\* C16: after a task vi or a task comment, whether the editor has exited
\* with 0, has exited with a failure status or could not be started, no
\* temporary file of an editor session is left in existence.
C16_TempFileRemoved ==
    (Observed("task vi") \/ Observed("task comment")) => tmp = 0

\* the task vi under observation had an editor that left the file as the
\* template was written
TemplateUnchanged ==
    /\ OnExistingTask("task vi")
    /\ last.args.editor.launch
    /\ last.args.editor.keep

\* C20: a task vi whose editor leaves the template as it was written
\* succeeds and leaves every field of the task as it was.
C20_UnchangedTemplateIsNoOp ==
    TemplateUnchanged =>
        /\ last.out = "Task updated via editor"
        /\ TaskAfter = TaskBefore

----------------------------------------------------------------------------
(* Claims about invocations at the same time, under SpecConcurrent; pre is  *)
(* kanban.json as it was when the first of them loaded it.                  *)

\* both invocations loaded before either opened kanban.json for writing, and
\* both have saved
Racing == \A p \in Procs : proc[p].pc = "saved" /\ proc[p].seen = 0

\* the invocation whose write came last, and the other one
LastSaver == CHOOSE p \in Procs : \A q \in Procs : proc[q].wrote <= proc[p].wrote
FirstSaver == CHOOSE p \in Procs : p /= LastSaver

\* what the command of invocation p makes of the data both loaded
Effect(p) == Handler(proc[p].op, load_data(pre), proc[p].args).data

\* the saves did not overlap: the last one opened the file after the first
\* one had written it
SavesApart == proc[LastSaver].opened > proc[FirstSaver].wrote

====
